---- MODULE Spec2Model ----
(***************************************************************************)
(* Annotation canvas engine of univ33251/codex: the zustand document store *)
(* (useAnnotationStore.ts), the freehand stroke capture of CanvasStage and *)
(* the document loading of App.tsx.                                        *)
(*                                                                         *)
(* Numbers.  Image-space coordinates are whole pixels.  Normalized         *)
(* coordinates (floats in [0,1] in the source) are fixed-point integers in *)
(* units of 1/NormUnit.  The image sizes are multiples of NormUnit, so     *)
(* denormalize is exact, and the pointer positions and drag offsets are    *)
(* multiples of size/NormUnit, so normalize is exact on every value the    *)
(* model reaches.  Areas are carried as twice the area in units of         *)
(* 1/NormUnit^2 and distances as their squares, so every comparison of the *)
(* source is an exact integer comparison.                                  *)
(* The viewport of CanvasStage counts scales in 1/ScaleUnit and stage      *)
(* positions in 1/PosUnit pixel; every render of the component is a state  *)
(* and the effects of a render are a step of their own.                    *)
(* Shapes keep id, points and closed; color, label and the timestamps are  *)
(* passed through unchanged by every operation and are left out.           *)
(***************************************************************************)
EXTENDS Integers, Sequences, FiniteSets, TLC

\* ------------------------------------------------------------------ bounds
MaxHistory == 2
MaxLayers == 2
MaxShapes == 1
MaxPath == 3
MaxClock == 2

\* --------------------------------------------------------------- constants
NormUnit == 100
MIN_POINT_DISTANCE == 4
CLOSE_THRESHOLD == 32
\* 0.0002 expressed in units of 1/NormUnit^2
MIN_POLYGON_AREA == 2
FREEHAND_SAMPLES == 36

Null == [null |-> TRUE]
NullId == 0

Images ==
  << [id |-> "imgA", width |-> 200, height |-> 300],
     [id |-> "imgB", width |-> 300, height |-> 200] >>

\* ---------------------------------------------------------------- helpers
Max2(a, b) == IF a >= b THEN a ELSE b
Min2(a, b) == IF a <= b THEN a ELSE b
Abs(v) == IF v < 0 THEN 0 - v ELSE v

RECURSIVE SeqFilter(_, _)
SeqFilter(s, keep) ==
  IF s = <<>> THEN <<>>
  ELSE IF keep[1] THEN <<Head(s)>> \o SeqFilter(Tail(s), Tail(keep))
       ELSE SeqFilter(Tail(s), Tail(keep))

\* ------------------------------------------------------ geometry utilities
clamp01(value) == Max2(0, Min2(NormUnit, value))

normalize(point, imageSize) ==
  [x |-> Max2(0, Min2(NormUnit, (point.x * NormUnit) \div imageSize.w)),
   y |-> Max2(0, Min2(NormUnit, (point.y * NormUnit) \div imageSize.h))]

denormalize(point, imageSize) ==
  [x |-> (point.x * imageSize.w) \div NormUnit,
   y |-> (point.y * imageSize.h) \div NormUnit]

clampToImage(point, imageSize) ==
  [x |-> Max2(0, Min2(imageSize.w, point.x)),
   y |-> Max2(0, Min2(imageSize.h, point.y))]

\* Math.hypot(b.x - a.x, b.y - a.y), squared
hypot2(a, b) == (b.x - a.x) * (b.x - a.x) + (b.y - a.y) * (b.y - a.y)

RECURSIVE shoelace(_, _)
shoelace(points, i) ==
  IF i > Len(points) THEN 0
  ELSE LET current == points[i]
           next == points[(i % Len(points)) + 1]
       IN (current.x * next.y - next.x * current.y) + shoelace(points, i + 1)

\* twice Math.abs(area) / 2 of polygonArea, in units of 1/NormUnit^2
polygonArea2(points) ==
  IF Len(points) < 3 THEN 0 ELSE Abs(shoelace(points, 1))

\* ------------------------------------------------------------ store (zustand)
cloneShape(shape) ==
  [id |-> shape.id, points |-> [i \in 1..Len(shape.points) |-> shape.points[i]],
   closed |-> shape.closed]

cloneLayer(layer) ==
  [id |-> layer.id, name |-> layer.name, visible |-> layer.visible,
   locked |-> layer.locked, z |-> layer.z,
   shapes |-> [i \in 1..Len(layer.shapes) |-> cloneShape(layer.shapes[i])]]

cloneDocument(doc) ==
  [image_id |-> doc.image_id, image_size |-> doc.image_size,
   layers |-> [i \in 1..Len(doc.layers) |-> cloneLayer(doc.layers[i])]]

firstLayerId(doc) ==
  IF doc = Null \/ Len(doc.layers) = 0 THEN NullId ELSE doc.layers[1].id

InitialStore ==
  [document |-> Null, currentImageIndex |-> 0, tool |-> "draw",
   selectedLayerId |-> NullId, selectedShapeId |-> NullId, isDirty |-> FALSE,
   history |-> <<>>, future |-> <<>>, canUndo |-> FALSE, canRedo |-> FALSE]

setDocument_keepStacks(s, doc) ==
  [s EXCEPT !.document = doc,
            !.selectedLayerId = firstLayerId(doc),
            !.selectedShapeId = NullId, !.isDirty = FALSE]

setDocument(s, doc) ==
  [s EXCEPT !.document = doc, !.history = <<>>, !.future = <<>>,
            !.canUndo = FALSE, !.canRedo = FALSE,
            !.selectedLayerId = firstLayerId(doc),
            !.selectedShapeId = NullId, !.isDirty = FALSE]

setCurrentImageIndex(s, index) == [s EXCEPT !.currentImageIndex = index]
setTool(s, tool) == [s EXCEPT !.tool = tool]
selectShape_marksDirty(s, layerId, shapeId) ==
  [s EXCEPT !.selectedLayerId = layerId, !.selectedShapeId = shapeId, !.isDirty = TRUE]
selectShape(s, layerId, shapeId) ==
  [s EXCEPT !.selectedLayerId = layerId, !.selectedShapeId = shapeId]
markDirty(s, dirty) == [s EXCEPT !.isDirty = dirty]

\* [...layers].sort((a, b) => a.z - b.z): a stable sort
RECURSIVE insertByZ(_, _)
insertByZ(sorted, layer) ==
  IF sorted = <<>> THEN <<layer>>
  ELSE IF Head(sorted).z <= layer.z
       THEN <<Head(sorted)>> \o insertByZ(Tail(sorted), layer)
       ELSE <<layer>> \o sorted

RECURSIVE sortByZ(_)
sortByZ(layers) ==
  IF layers = <<>> THEN <<>>
  ELSE insertByZ(sortByZ(SubSeq(layers, 1, Len(layers) - 1)), layers[Len(layers)])

mutated_keepFuture(s, layers) ==
  LET history == Append(s.history, cloneDocument(s.document))
  IN [s EXCEPT !.document = [s.document EXCEPT !.layers = layers],
               !.isDirty = TRUE, !.history = history,
               !.canUndo = Len(history) > 0]

mutated_noSnapshot(s, layers) ==
  [s EXCEPT !.document = [s.document EXCEPT !.layers = layers],
            !.isDirty = TRUE, !.future = <<>>,
            !.canUndo = Len(s.history) > 0, !.canRedo = FALSE]

\* the object every mutating operation returns: new layers, dirty, the
\* snapshot pushed on history, future cleared
mutated(s, layers) ==
  LET history == Append(s.history, cloneDocument(s.document))
  IN [s EXCEPT !.document = [s.document EXCEPT !.layers = layers],
               !.isDirty = TRUE, !.history = history, !.future = <<>>,
               !.canUndo = Len(history) > 0, !.canRedo = FALSE]

addLayer(s, layer) ==
  IF s.document = Null THEN s
  ELSE [mutated(s, sortByZ(Append(s.document.layers, layer)))
          EXCEPT !.selectedLayerId = layer.id]

updateLayer(s, layer) ==
  IF s.document = Null THEN s
  ELSE mutated(s, [i \in 1..Len(s.document.layers) |->
                     IF s.document.layers[i].id = layer.id THEN layer
                     ELSE s.document.layers[i]])

removeLayer(s, layerId) ==
  IF s.document = Null THEN s
  ELSE LET layers == SeqFilter(s.document.layers,
                       [i \in 1..Len(s.document.layers) |->
                          s.document.layers[i].id # layerId])
       IN [mutated(s, layers) EXCEPT
             !.selectedLayerId = IF Len(layers) = 0 THEN NullId ELSE layers[1].id]

addShape_prepends(s, layerId, shape) ==
  IF s.document = Null THEN s
  ELSE [mutated(s, [i \in 1..Len(s.document.layers) |->
                      IF s.document.layers[i].id = layerId
                      THEN [s.document.layers[i] EXCEPT !.shapes = <<shape>> \o @]
                      ELSE s.document.layers[i]])
          EXCEPT !.selectedLayerId = layerId, !.selectedShapeId = shape.id]

addShape(s, layerId, shape) ==
  IF s.document = Null THEN s
  ELSE [mutated(s, [i \in 1..Len(s.document.layers) |->
                      IF s.document.layers[i].id = layerId
                      THEN [s.document.layers[i] EXCEPT !.shapes = Append(@, shape)]
                      ELSE s.document.layers[i]])
          EXCEPT !.selectedLayerId = layerId, !.selectedShapeId = shape.id]

updateShape(s, layerId, shape) ==
  IF s.document = Null THEN s
  ELSE mutated(s, [i \in 1..Len(s.document.layers) |->
                     IF s.document.layers[i].id = layerId
                     THEN [s.document.layers[i] EXCEPT !.shapes =
                             [j \in 1..Len(@) |-> IF @[j].id = shape.id THEN shape ELSE @[j]]]
                     ELSE s.document.layers[i]])

deleteShape(s, layerId, shapeId) ==
  IF s.document = Null THEN s
  ELSE [mutated(s, [i \in 1..Len(s.document.layers) |->
                      IF s.document.layers[i].id = layerId
                      THEN [s.document.layers[i] EXCEPT !.shapes =
                              SeqFilter(@, [j \in 1..Len(@) |-> @[j].id # shapeId])]
                      ELSE s.document.layers[i]])
          EXCEPT !.selectedShapeId = NullId]

undo_dropCurrent(s) ==
  IF s.document = Null \/ Len(s.history) = 0 THEN s
  ELSE LET previous == s.history[Len(s.history)]
           history == SubSeq(s.history, 1, Len(s.history) - 1)
           future == <<cloneDocument(previous)>> \o s.future
       IN [s EXCEPT !.document = cloneDocument(previous), !.history = history,
                    !.future = future, !.canUndo = Len(history) > 0,
                    !.canRedo = TRUE, !.selectedLayerId = firstLayerId(previous),
                    !.selectedShapeId = NullId, !.isDirty = TRUE]

undo_resetsSelection(s) ==
  IF s.document = Null \/ Len(s.history) = 0
  THEN [s EXCEPT !.selectedShapeId = NullId]
  ELSE LET previous == s.history[Len(s.history)]
           history == SubSeq(s.history, 1, Len(s.history) - 1)
           future == <<cloneDocument(s.document)>> \o s.future
       IN [s EXCEPT !.document = cloneDocument(previous), !.history = history,
                    !.future = future, !.canUndo = Len(history) > 0,
                    !.canRedo = TRUE, !.selectedLayerId = firstLayerId(previous),
                    !.selectedShapeId = NullId, !.isDirty = TRUE]

undo(s) ==
  IF s.document = Null \/ Len(s.history) = 0 THEN s
  ELSE LET previous == s.history[Len(s.history)]
           history == SubSeq(s.history, 1, Len(s.history) - 1)
           future == <<cloneDocument(s.document)>> \o s.future
       IN [s EXCEPT !.document = cloneDocument(previous), !.history = history,
                    !.future = future, !.canUndo = Len(history) > 0,
                    !.canRedo = TRUE, !.selectedLayerId = firstLayerId(previous),
                    !.selectedShapeId = NullId, !.isDirty = TRUE]

redo(s) ==
  IF s.document = Null \/ Len(s.future) = 0 THEN s
  ELSE LET next == Head(s.future)
           rest == Tail(s.future)
           history == Append(s.history, cloneDocument(s.document))
       IN [s EXCEPT !.document = cloneDocument(next), !.history = history,
                    !.future = rest, !.canUndo = Len(history) > 0,
                    !.canRedo = Len(rest) > 0, !.selectedLayerId = firstLayerId(next),
                    !.selectedShapeId = NullId, !.isDirty = TRUE]

\* --------------------------------------------- document lifecycle (App.tsx)
imageSizeOf(image) == [w |-> image.width, h |-> image.height]

\* Math.cos(2 * Math.PI * i / FREEHAND_SAMPLES) * 1000, rounded
cosQuadrant == <<1000, 985, 940, 866, 766, 643, 500, 342, 174, 0>>
cos1000(i) ==
  LET k == i % FREEHAND_SAMPLES
  IN IF k <= 9 THEN cosQuadrant[k + 1]
     ELSE IF k <= 18 THEN 0 - cosQuadrant[(18 - k) + 1]
     ELSE IF k <= 27 THEN 0 - cosQuadrant[(k - 18) + 1]
     ELSE cosQuadrant[(36 - k) + 1]
sin1000(i) == cos1000(i + 27)

\* x / d rounded to the nearest integer
roundDiv(x, d) == (2 * x + d) \div (2 * d)

\* Number(v) || fallback: a missing, NaN or zero value takes the fallback
numberOr(r, f, fallback) ==
  IF f \in DOMAIN r /\ r[f] # 0 THEN r[f] ELSE fallback

convertCircleToFreehand(shape, docSize) ==
  LET center == IF "center" \in DOMAIN shape THEN shape.center ELSE [none |-> TRUE]
      centerX == clamp01(numberOr(center, "x", NormUnit \div 2))
      centerY == clamp01(numberOr(center, "y", NormUnit \div 2))
      radiusNorm == IF "radius" \in DOMAIN shape THEN shape.radius ELSE NormUnit \div 20
      radiusPx == radiusNorm * docSize.w
      points == [k \in 1..FREEHAND_SAMPLES |->
                   LET i == k - 1
                       px == centerX * docSize.w + roundDiv(cos1000(i) * radiusPx, 1000)
                       py == centerY * docSize.h + roundDiv(sin1000(i) * radiusPx, 1000)
                   IN [x |-> clamp01(roundDiv(px, docSize.w)),
                       y |-> clamp01(roundDiv(py, docSize.h))]]
  IN [id |-> shape.id, points |-> points, closed |-> TRUE]

ensureFreehandShape(shape, docSize) ==
  LET isFreehand == shape.type = "freehand" /\ "points" \in DOMAIN shape
      mapped == IF isFreehand
                THEN [i \in 1..Len(shape.points) |->
                        [x |-> clamp01(numberOr(shape.points[i], "x", 0)),
                         y |-> clamp01(numberOr(shape.points[i], "y", 0))]]
                ELSE <<>>
      sanitized == SeqFilter(mapped,
                     [i \in 1..Len(mapped) |->
                        i = 1 \/ mapped[i].x # mapped[i - 1].x \/ mapped[i].y # mapped[i - 1].y])
  IN IF isFreehand /\ Len(sanitized) >= 2
     THEN [id |-> shape.id, points |-> sanitized,
           closed |-> IF "closed" \in DOMAIN shape THEN shape.closed # FALSE ELSE TRUE]
     ELSE convertCircleToFreehand(shape, docSize)

upgradeDocument(image, doc) ==
  LET size == IF "image_size" \in DOMAIN doc THEN doc.image_size ELSE imageSizeOf(image)
      layers == [index \in 1..Len(doc.layers) |->
                   LET incomingLayer == doc.layers[index]
                   IN [id |-> incomingLayer.id,
                       name |-> incomingLayer.name,
                       locked |-> IF "locked" \in DOMAIN incomingLayer
                                  THEN incomingLayer.locked ELSE FALSE,
                       visible |-> IF "visible" \in DOMAIN incomingLayer
                                   THEN incomingLayer.visible ELSE TRUE,
                       z |-> IF "z" \in DOMAIN incomingLayer THEN incomingLayer.z ELSE index,
                       shapes |-> [j \in 1..Len(incomingLayer.shapes) |->
                                     ensureFreehandShape(incomingLayer.shapes[j], size)]]]
  IN [image_id |-> doc.image_id, image_size |-> size, layers |-> layers]

defaultDocument_noLayer(image, now) ==
  [image_id |-> image.id, image_size |-> imageSizeOf(image), layers |-> <<>>]

defaultDocument(image, now) ==
  [image_id |-> image.id, image_size |-> imageSizeOf(image),
   layers |-> << [id |-> now, name |-> "default", visible |-> TRUE,
                  locked |-> FALSE, z |-> 1, shapes |-> <<>>] >>]

\* what GET /api/annotations/:id can answer for an image: nothing stored, a
\* failure, or a stored document (the server stores any posted body)
legacyCircleDoc(image) ==
  [image_id |-> image.id, image_size |-> imageSizeOf(image),
   layers |-> << [id |-> 90, name |-> "legacy",
                  shapes |-> << [id |-> 91, type |-> "circle",
                                 center |-> [x |-> 50, y |-> 50], radius |-> 5] >>] >>]

thinShapeDoc(image) ==
  [image_id |-> image.id,
   layers |-> << [id |-> 90, name |-> "thin", visible |-> TRUE, z |-> 1,
                  shapes |-> << [id |-> 92, type |-> "freehand",
                                 points |-> << [x |-> 10, y |-> 10], [x |-> 10, y |-> 10],
                                               [x |-> 120, y |-> 10] >>] >>] >>]

noLayerDoc(image) ==
  [image_id |-> image.id, image_size |-> imageSizeOf(image), layers |-> <<>>]

\* a legacy circle on the left edge of the image
edgeCircleDoc(image) ==
  [image_id |-> image.id, image_size |-> imageSizeOf(image),
   layers |-> << [id |-> 90, name |-> "legacy",
                  shapes |-> << [id |-> 94, type |-> "circle",
                                 center |-> [x |-> 0, y |-> 50], radius |-> 5] >>] >>]

\* two layers, the first with a z, the second without one
unorderedLayersDoc(image) ==
  [image_id |-> image.id, image_size |-> imageSizeOf(image),
   layers |-> << [id |-> 95, name |-> "top", visible |-> TRUE, z |-> 3, shapes |-> <<>>],
                 [id |-> 96, name |-> "base", visible |-> TRUE, shapes |-> <<>>] >>]

Responses(image) ==
  { [kind |-> "null"], [kind |-> "error"],
    [kind |-> "doc", data |-> edgeCircleDoc(image)],
    [kind |-> "doc", data |-> unorderedLayersDoc(image)],
    [kind |-> "doc", data |-> legacyCircleDoc(image)],
    [kind |-> "doc", data |-> thinShapeDoc(image)],
    [kind |-> "doc", data |-> noLayerDoc(image)] }

\* the continuation of loadDocumentForIndex after the annotation request
loadDocumentForIndex(s, index, res, now) ==
  LET image == Images[index + 1]
  IN IF res.kind = "error"
     THEN LET doc == defaultDocument(image, now)
          IN markDirty(selectShape(setDocument(setCurrentImageIndex(s, index), doc),
                                   firstLayerId(doc), NullId), FALSE)
     ELSE LET doc == upgradeDocument(image,
                       IF res.kind = "null" THEN defaultDocument(image, now) ELSE res.data)
          IN markDirty(selectShape(setDocument(s, doc), firstLayerId(doc), NullId), FALSE)

\* ------------------------------------------------ stroke capture (CanvasStage)
findLayer(layers, id) ==
  IF \E i \in 1..Len(layers) : layers[i].id = id
  THEN layers[CHOOSE i \in 1..Len(layers) :
                layers[i].id = id /\ \A j \in 1..(i - 1) : layers[j].id # id]
  ELSE Null

\* App: store.document.layers.find(l => l.id === selectedLayerId) ?? layers[0]
currentLayer(s) ==
  IF s.document = Null \/ Len(s.document.layers) = 0 THEN Null
  ELSE IF findLayer(s.document.layers, s.selectedLayerId) # Null
       THEN findLayer(s.document.layers, s.selectedLayerId)
       ELSE s.document.layers[1]

getActiveLayer(s) ==
  IF Len(s.document.layers) = 0 THEN Null
  ELSE LET activeLayerId == currentLayer(s).id
       IN IF findLayer(s.document.layers, activeLayerId) # Null
          THEN findLayer(s.document.layers, activeLayerId)
          ELSE s.document.layers[1]

RejectLocked == "locked layer"
RejectNotClosed == "not closed"
RejectArea == "area too small"
NoReason == "none"

isOpen_never(first, last) == FALSE

\* the closure gate of finalizeDraft: distance > CLOSE_THRESHOLD
isOpen(first, last) == hypot2(first, last) > CLOSE_THRESHOLD * CLOSE_THRESHOLD

tooSmall_never(normalizedPoints) == FALSE

\* the area gate of finalizeDraft: area < MIN_POLYGON_AREA
tooSmall(normalizedPoints) == polygonArea2(normalizedPoints) < 2 * MIN_POLYGON_AREA

finalizeDraft_reportShort(s, draft, now) ==
  IF draft = Null THEN [store |-> s, draftPath |-> draft, rejected |-> NoReason]
  ELSE [store |-> s, draftPath |-> Null, rejected |-> RejectNotClosed]

\* result of finalizeDraft: the store, the draft and the reason handed to
\* onShapeRejected
finalizeDraft(s, draft, now) ==
  IF draft = Null THEN [store |-> s, draftPath |-> draft, rejected |-> NoReason]
  ELSE LET layer == getActiveLayer(s)
           points == draft.points
       IN IF layer = Null \/ Len(points) < 3
          THEN [store |-> s, draftPath |-> Null, rejected |-> NoReason]
          ELSE IF isOpen(points[1], points[Len(points)])
          THEN [store |-> s, draftPath |-> Null, rejected |-> RejectNotClosed]
          ELSE LET normalizedPoints ==
                     [i \in 1..Len(points) |-> normalize(points[i], s.document.image_size)]
               IN IF tooSmall(normalizedPoints)
                  THEN [store |-> s, draftPath |-> Null, rejected |-> RejectArea]
                  ELSE LET shape == [id |-> now, points |-> normalizedPoints, closed |-> TRUE]
                       IN [store |-> selectShape(addShape(s, layer.id, shape), layer.id, shape.id),
                           draftPath |-> Null, rejected |-> NoReason]

\* points of a shape after Line.onDragEnd moved it by (dx, dy) image pixels
draggedPoints(shape, dx, dy, imageSize) ==
  [i \in 1..Len(shape.points) |->
     LET original == denormalize(shape.points[i], imageSize)
         moved == clampToImage([x |-> original.x + dx, y |-> original.y + dy], imageSize)
     IN normalize(moved, imageSize)]

\* ------------------------------------------------------ viewport (CanvasStage)
\* Scales are counted in 1/ScaleUnit (stageScale 1 is ScaleUnit) and stage
\* positions in 1/PosUnit pixel, so that the halves of clampStagePosition are
\* exact; container and image sizes are whole pixels.
ScaleUnit == 100
PosUnit == 2
MIN_STAGE_SCALE == 5
MAX_STAGE_SCALE == 800
WHEEL_SCALE_STEP == 105

\* pinchDistanceRef.current = null
NoDistance == 0 - 1

clampScale_unbounded(value) == value

clampScale(value) == Max2(MIN_STAGE_SCALE, Min2(value, MAX_STAGE_SCALE))

\* one axis of clampStagePosition
clampAxis(containerLen, imageLen, p, scale) ==
  LET available == containerLen - (imageLen * scale) \div ScaleUnit
  IN IF available >= 0 THEN (available * PosUnit) \div 2
     ELSE Min2(0, Max2(available * PosUnit, p))

clampStagePosition_free(containerSize, imageSize, pos, scale) == pos

clampStagePosition(containerSize, imageSize, pos, scale) ==
  IF containerSize.width = 0 \/ containerSize.height = 0 THEN pos
  ELSE [x |-> clampAxis(containerSize.width, imageSize.w, pos.x, scale),
        y |-> clampAxis(containerSize.height, imageSize.h, pos.y, scale)]

\* applyZoom reads the refs and the container size of the last render
applyZoom_keepsTranslation(v, imageSize, pointer, scale) ==
  LET nextScale == clampScale(scale)
      clampedPos == clampStagePosition(v.containerSize, imageSize, v.stagePositionRef,
                                       nextScale)
  IN [v EXCEPT !.stageScale = nextScale, !.stagePosition = clampedPos,
               !.stageScaleRef = nextScale, !.stagePositionRef = clampedPos]

applyZoom(v, imageSize, pointer, scale) ==
  LET nextScale == clampScale(scale)
      stagePos == v.stagePositionRef
      oldScale == v.stageScaleRef
      newPos == [x |-> pointer.x - ((pointer.x - stagePos.x) * nextScale) \div oldScale,
                 y |-> pointer.y - ((pointer.y - stagePos.y) * nextScale) \div oldScale]
      clampedPos == clampStagePosition(v.containerSize, imageSize, newPos, nextScale)
  IN [v EXCEPT !.stageScale = nextScale, !.stagePosition = clampedPos,
               !.stageScaleRef = nextScale, !.stagePositionRef = clampedPos]

handleWheel(v, imageSize, pointer, deltaY) ==
  LET targetScale == IF deltaY > 0
                     THEN (v.stageScaleRef * ScaleUnit) \div WHEEL_SCALE_STEP
                     ELSE (v.stageScaleRef * WHEEL_SCALE_STEP) \div ScaleUnit
  IN applyZoom(v, imageSize, pointer, targetScale)

handleTouchMove_keepsFirstDistance(v, imageSize, distance, center) ==
  LET zoomed == IF v.pinchDistance # NoDistance /\ v.pinchDistance # 0
                THEN applyZoom(v, imageSize, center,
                               (v.stageScaleRef * distance) \div v.pinchDistance)
                ELSE v
  IN [zoomed EXCEPT !.pinchCenter = center]

\* handleTouchMove with two touches at the given distance and midpoint
handleTouchMove(v, imageSize, distance, center) ==
  LET zoomed == IF v.pinchDistance # NoDistance /\ v.pinchDistance # 0
                THEN applyZoom(v, imageSize, center,
                               (v.stageScaleRef * distance) \div v.pinchDistance)
                ELSE v
      dx == IF v.pinchCenter = Null THEN 0 ELSE center.x - v.pinchCenter.x
      dy == IF v.pinchCenter = Null THEN 0 ELSE center.y - v.pinchCenter.y
      nextPos == clampStagePosition(v.containerSize, imageSize,
                                    [x |-> zoomed.stagePositionRef.x + dx,
                                     y |-> zoomed.stagePositionRef.y + dy],
                                    zoomed.stageScaleRef)
      panned == IF dx # 0 \/ dy # 0
                THEN [zoomed EXCEPT !.stagePosition = nextPos, !.stagePositionRef = nextPos]
                ELSE zoomed
  IN [panned EXCEPT !.pinchDistance = distance, !.pinchCenter = center]

\* the values the effects of CanvasStage depend on
viewDeps(v) ==
  [stageScale |-> v.stageScale, stagePosition |-> v.stagePosition,
   containerSize |-> v.containerSize, resetViewportKey |-> v.resetViewportKey]

\* a render whose effects have not run yet
effectsPending(v) == viewDeps(v) # v.seen

\* the effects of one render, in their order: the reset effect, the re-clamp
\* effect (with the clampStagePosition of that render), the two ref effects;
\* then the queued state updates
runEffects(v, imageSize) ==
  LET clampChanged == \/ v.seen.stageScale # v.stageScale
                      \/ v.seen.containerSize # v.containerSize
      resetRuns == /\ clampChanged \/ v.seen.resetViewportKey # v.resetViewportKey
                   /\ v.containerSize.width # 0
                   /\ v.containerSize.height # 0
      nextPosition ==
        clampStagePosition(v.containerSize, imageSize,
                           [x |-> ((v.containerSize.width - imageSize.w) * PosUnit) \div 2,
                            y |-> ((v.containerSize.height - imageSize.h) * PosUnit) \div 2],
                           ScaleUnit)
      queuedPosition == IF resetRuns THEN nextPosition ELSE v.stagePosition
  IN [v EXCEPT
        !.stageScale = IF resetRuns THEN ScaleUnit ELSE @,
        !.stagePosition =
           IF clampChanged
           THEN clampStagePosition(v.containerSize, imageSize, queuedPosition, v.stageScale)
           ELSE queuedPosition,
        !.stageScaleRef = IF v.seen.stageScale # v.stageScale THEN v.stageScale
                          ELSE IF resetRuns THEN ScaleUnit ELSE @,
        !.stagePositionRef = IF v.seen.stagePosition # v.stagePosition THEN v.stagePosition
                             ELSE IF resetRuns THEN nextPosition ELSE @,
        !.seen = viewDeps(v)]

\* CanvasStage after its first render and effects; touches counts the fingers
\* on the stage and lastPair is the last sample of two touches since the last
\* touch end (both are kept for the properties, the code does not read them)
InitialView ==
  [stageScale |-> ScaleUnit, stagePosition |-> [x |-> 0, y |-> 0],
   containerSize |-> [width |-> 0, height |-> 0],
   stageScaleRef |-> ScaleUnit, stagePositionRef |-> [x |-> 0, y |-> 0],
   pinchDistance |-> NoDistance, pinchCenter |-> Null, resetViewportKey |-> 0,
   touches |-> 0, lastPair |-> Null,
   seen |-> [stageScale |-> ScaleUnit, stagePosition |-> [x |-> 0, y |-> 0],
             containerSize |-> [width |-> 0, height |-> 0], resetViewportKey |-> 0]]

\* ------------------------------------------------------------------- state
VARIABLES
  store,           \* the zustand state object
  draftPath,       \* CanvasStage draftPath: Null or [points |-> <<image points>>]
  activePointers,  \* pointers currently down on the stage
  rejected,        \* reason handed to onShapeRejected by the last handler
  clock,           \* Date.now()
  loads,           \* image indexes whose annotation request is in flight
  lastOp,          \* name of the last operation
  afterUndo,       \* the last operation started right after an undo that left a redo stack
  secondTouchSeen, \* a second pointer came down while the current capture was active
  saves,           \* save requests in flight: [image_id, doc, autosave]
  appError,        \* App's error state
  timer,           \* time since the autosave interval was last (re)started
  dirtyAge,        \* time the document has been dirty with no autosave request issued
  server,          \* the annotation files of the storage adapter and its running calls
  capturedBefore,  \* points the draft held when the last operation started (0: no draft)
  view             \* CanvasStage viewport: scale, position, container, refs, effect deps

vars == <<store, draftPath, activePointers, rejected, clock, loads, lastOp, afterUndo,
          secondTouchSeen, saves, appError, timer, dirtyAge, server, capturedBefore,
          view>>

canvasVars == <<draftPath, activePointers, rejected, secondTouchSeen>>

ioVars == <<saves, appError, server>>

Did(op) ==
  /\ lastOp' = op
  /\ afterUndo' = (lastOp = "undo" /\ store.future # <<>>)
  /\ capturedBefore' = IF draftPath = Null THEN 0 ELSE Len(draftPath.points)

Mutators == {"addLayer", "updateLayer", "removeLayer", "addShape", "updateShape",
             "deleteShape"}

layerCount == IF store.document = Null THEN 0 ELSE Len(store.document.layers)
layerIds == IF store.document = Null THEN {}
            ELSE {store.document.layers[i].id : i \in 1..Len(store.document.layers)}
HistoryRoom == Len(store.history) < MaxHistory

\* image-space pointer positions (after toImageCoords, before clampToImage)
Positions ==
  { [x |-> 0, y |-> 0], [x |-> 20, y |-> 0], [x |-> 0, y |-> 21], [x |-> 240, y |-> -6] }

\* drag offsets of Line.onDragEnd, in image pixels
DragOffsets == { [x |-> 10, y |-> 0], [x |-> 400, y |-> 0] }

\* shapes handed to the store's addShape / updateShape directly
SamplePoints ==
  { << [x |-> 0, y |-> 0], [x |-> 10, y |-> 0], [x |-> 0, y |-> 7] >>,
    << [x |-> 5, y |-> 0], [x |-> 15, y |-> 0], [x |-> 5, y |-> 7] >> }

\* ------------------------------------------------- autosave timer (App.tsx)
AUTOSAVE_INTERVAL == 15000
TimeStep == AUTOSAVE_INTERVAL \div 3
NoError == "no error"
SaveFailed == "save failed"

\* a state change gave the store a new document object
documentReplaced ==
  \/ store'.document # store.document
  \/ lastOp' \in Mutators \cup {"setDocument"}
  \/ lastOp' \in {"undo", "redo"} /\ store' # store

\* the autosave effect re-runs, and restarts its interval, whenever
\* store.document or store.isDirty changed
AutosaveEffect ==
  /\ timer' = IF documentReplaced \/ store'.isDirty # store.isDirty THEN 0 ELSE timer
  /\ dirtyAge' = IF store'.isDirty THEN dirtyAge ELSE 0

\* ------------------------------------------- storage adapter (fsAdapter.ts)
MaxWrites == 2
Chunks == 2
NoInode == 0

\* the body of write call w, as the chunks fs.writeFile hands to the file
bodyOf(w) == [k \in 1..Chunks |-> <<w, k>>]

InitialServer ==
  [tmp |-> NoInode, ann |-> NoInode, inodes |-> <<>>,
   pc |-> [w \in 1..MaxWrites |-> "idle"], fd |-> [w \in 1..MaxWrites |-> NoInode],
   off |-> [w \in 1..MaxWrites |-> 0], read |-> [kind |-> "unread"]]

InitIO ==
  /\ saves = {}
  /\ appError = NoError
  /\ timer = 0
  /\ dirtyAge = 0
  /\ server = InitialServer
  /\ capturedBefore = 0
  /\ view = InitialView

Init ==
  /\ store = InitialStore
  /\ draftPath = Null
  /\ activePointers = 0
  /\ rejected = NoReason
  /\ clock = 1
  /\ loads = {}
  /\ lastOp = "init"
  /\ afterUndo = FALSE
  /\ secondTouchSeen = FALSE
  /\ InitIO

\* ---------------------------------------------------------------- environment
Tick ==
  /\ clock < MaxClock
  /\ clock' = clock + 1
  /\ Did("tick")
  /\ UNCHANGED view
  /\ UNCHANGED <<store, canvasVars, loads, ioVars>>
  /\ AutosaveEffect

\* ------------------------------------------------------------------- loading
\* loadDocumentForIndex up to its await: fetchImages / the images effect while
\* no document is open, onNext / onPrev afterwards
LoadRequest(index) ==
  /\ index \in 0..(Len(Images) - 1)
  /\ IF store.document = Null THEN index = 0
     ELSE index \in {store.currentImageIndex - 1, store.currentImageIndex + 1}
  /\ store' = setCurrentImageIndex(store, index)
  /\ loads' = loads \cup {index}
  /\ Did("loadRequest")
  /\ UNCHANGED view
  /\ UNCHANGED <<canvasVars, clock, ioVars>>
  /\ AutosaveEffect

\* CanvasStage is keyed by image_id: its state is fresh when the id changes
LoadResponse(index, res) ==
  /\ index \in loads
  /\ res \in Responses(Images[index + 1])
  /\ store' = loadDocumentForIndex(store, index, res, clock)
  /\ loads' = loads \ {index}
  /\ draftPath' = IF store.document # Null
                     /\ store'.document.image_id = store.document.image_id
                  THEN draftPath ELSE Null
  /\ rejected' = NoReason
  /\ Did("setDocument")
  /\ view' = IF store.document # Null
                /\ store'.document.image_id = store.document.image_id
             THEN view
             ELSE [InitialView EXCEPT !.resetViewportKey = view.resetViewportKey,
                                      !.seen.resetViewportKey = view.resetViewportKey]
  /\ UNCHANGED <<activePointers, secondTouchSeen, clock, ioVars>>
  /\ AutosaveEffect

\* ------------------------------------------------------------ store operations
AddLayer ==
  /\ store.document # Null
  /\ HistoryRoom
  /\ layerCount < MaxLayers
  /\ store' = addLayer(store, [id |-> clock, name |-> "Layer", visible |-> TRUE,
                               locked |-> FALSE, z |-> layerCount + 1, shapes |-> <<>>])
  /\ Did("addLayer")
  /\ UNCHANGED view
  /\ rejected' = NoReason
  /\ UNCHANGED <<draftPath, activePointers, secondTouchSeen, clock, loads, ioVars>>
  /\ AutosaveEffect

\* onToggleVisibility / onToggleLock of the layer panel
UpdateLayer(layerId, field) ==
  /\ store.document # Null
  /\ HistoryRoom
  /\ layerId \in layerIds
  /\ LET layer == findLayer(store.document.layers, layerId)
     IN store' = updateLayer(store,
                   IF field = "visible" THEN [layer EXCEPT !.visible = ~layer.visible]
                   ELSE [layer EXCEPT !.locked = ~layer.locked])
  /\ Did("updateLayer")
  /\ UNCHANGED view
  /\ rejected' = NoReason
  /\ UNCHANGED <<draftPath, activePointers, secondTouchSeen, clock, loads, ioVars>>
  /\ AutosaveEffect

RemoveLayer(layerId) ==
  /\ store.document # Null
  /\ HistoryRoom
  /\ layerId \in layerIds
  /\ store' = removeLayer(store, layerId)
  /\ Did("removeLayer")
  /\ UNCHANGED view
  /\ rejected' = NoReason
  /\ UNCHANGED <<draftPath, activePointers, secondTouchSeen, clock, loads, ioVars>>
  /\ AutosaveEffect

AddShape(layerId, points) ==
  /\ store.document # Null
  /\ HistoryRoom
  /\ layerId \in layerIds
  /\ Len(findLayer(store.document.layers, layerId).shapes) < MaxShapes
  /\ store' = addShape(store, layerId, [id |-> clock, points |-> points, closed |-> TRUE])
  /\ Did("addShape")
  /\ UNCHANGED view
  /\ rejected' = NoReason
  /\ UNCHANGED <<draftPath, activePointers, secondTouchSeen, clock, loads, ioVars>>
  /\ AutosaveEffect

UpdateShape(layerId, j, points) ==
  /\ store.document # Null
  /\ HistoryRoom
  /\ layerId \in layerIds
  /\ LET layer == findLayer(store.document.layers, layerId)
     IN /\ j \in 1..Len(layer.shapes)
        /\ store' = updateShape(store, layerId, [layer.shapes[j] EXCEPT !.points = points])
  /\ Did("updateShape")
  /\ UNCHANGED view
  /\ rejected' = NoReason
  /\ UNCHANGED <<draftPath, activePointers, secondTouchSeen, clock, loads, ioVars>>
  /\ AutosaveEffect

DeleteShape(layerId, j) ==
  /\ store.document # Null
  /\ HistoryRoom
  /\ layerId \in layerIds
  /\ LET layer == findLayer(store.document.layers, layerId)
     IN /\ j \in 1..Len(layer.shapes)
        /\ store' = deleteShape(store, layerId, layer.shapes[j].id)
  /\ Did("deleteShape")
  /\ UNCHANGED view
  /\ rejected' = NoReason
  /\ UNCHANGED <<draftPath, activePointers, secondTouchSeen, clock, loads, ioVars>>
  /\ AutosaveEffect

\* the shape list's focus button
SelectShape(layerId, j) ==
  /\ store.document # Null
  /\ layerId \in layerIds
  /\ LET layer == findLayer(store.document.layers, layerId)
     IN /\ j \in 1..Len(layer.shapes)
        /\ store' = selectShape(store, layerId, layer.shapes[j].id)
  /\ Did("selectShape")
  /\ UNCHANGED view
  /\ rejected' = NoReason
  /\ UNCHANGED <<draftPath, activePointers, secondTouchSeen, clock, loads, ioVars>>
  /\ AutosaveEffect

Undo ==
  /\ store.document # Null
  /\ store' = undo(store)
  /\ Did("undo")
  /\ UNCHANGED view
  /\ rejected' = NoReason
  /\ UNCHANGED <<draftPath, activePointers, secondTouchSeen, clock, loads, ioVars>>
  /\ AutosaveEffect

Redo ==
  /\ store.document # Null
  /\ store' = redo(store)
  /\ Did("redo")
  /\ UNCHANGED view
  /\ rejected' = NoReason
  /\ UNCHANGED <<draftPath, activePointers, secondTouchSeen, clock, loads, ioVars>>
  /\ AutosaveEffect

\* the store driven through its operations on the first image
Next ==
  \/ Tick
  \/ LoadRequest(0)
  \/ \E index \in loads : \E res \in Responses(Images[index + 1]) : LoadResponse(index, res)
  \/ AddLayer
  \/ \E layerId \in layerIds : \E field \in {"visible", "locked"} : UpdateLayer(layerId, field)
  \/ \E layerId \in layerIds : RemoveLayer(layerId)
  \/ \E layerId \in layerIds : \E points \in SamplePoints : AddShape(layerId, points)
  \/ \E layerId \in layerIds : \E j \in 1..MaxShapes : \E points \in SamplePoints :
       UpdateShape(layerId, j, points)
  \/ \E layerId \in layerIds : \E j \in 1..MaxShapes : DeleteShape(layerId, j)
  \/ \E layerId \in layerIds : \E j \in 1..MaxShapes : SelectShape(layerId, j)
  \/ Undo
  \/ Redo

Spec == Init /\ [][Next]_vars

\* ------------------------------------------------------------ canvas handlers
MaxPointers == 2

handlePointerDown_ignoreLock(s, draft, pos, withTouches) ==
  IF withTouches \/ s.tool # "draw" \/ getActiveLayer(s) = Null
  THEN [store |-> s, draftPath |-> draft, rejected |-> NoReason]
  ELSE [store |-> selectShape(s, getActiveLayer(s).id, NullId),
        draftPath |-> [points |-> <<clampToImage(pos, s.document.image_size)>>],
        rejected |-> NoReason]

\* withTouches: the event carries a touches list with more than one touch
handlePointerDown(s, draft, pos, withTouches) ==
  IF withTouches THEN [store |-> s, draftPath |-> draft, rejected |-> NoReason]
  ELSE IF s.tool = "draw"
  THEN LET activeLayer == getActiveLayer(s)
       IN IF activeLayer = Null
          THEN [store |-> s, draftPath |-> draft, rejected |-> NoReason]
          ELSE IF activeLayer.locked
          THEN [store |-> s, draftPath |-> draft, rejected |-> RejectLocked]
          ELSE [store |-> selectShape(s, activeLayer.id, NullId),
                draftPath |-> [points |-> <<clampToImage(pos, s.document.image_size)>>],
                rejected |-> NoReason]
  ELSE IF s.tool = "select"
  THEN [store |-> selectShape(s, NullId, NullId), draftPath |-> draft, rejected |-> NoReason]
  ELSE [store |-> s, draftPath |-> draft, rejected |-> NoReason]

handlePointerMove(draft, pos, withTouches, imageSize) ==
  IF draft = Null \/ withTouches THEN draft
  ELSE LET p == clampToImage(pos, imageSize)
           lastPoint == draft.points[Len(draft.points)]
       IN IF hypot2(lastPoint, p) < MIN_POINT_DISTANCE * MIN_POINT_DISTANCE
          THEN draft
          ELSE [points |-> Append(draft.points, p)]

shapeCount(doc) ==
  IF doc = Null THEN 0
  ELSE Cardinality({<<i, j>> \in (1..Len(doc.layers)) \X (1..(MaxShapes + 1)) :
                      j <= Len(doc.layers[i].shapes)})

PointerDown(pos, withTouches) ==
  /\ store.document # Null
  /\ activePointers < MaxPointers
  /\ withTouches => activePointers >= 1
  /\ LET r == handlePointerDown(store, draftPath, pos, withTouches)
     IN /\ store' = r.store
        /\ draftPath' = r.draftPath
        /\ rejected' = r.rejected
  /\ activePointers' = activePointers + 1
  /\ secondTouchSeen' = IF activePointers = 0 THEN FALSE
                        ELSE (secondTouchSeen \/ draftPath # Null)
  /\ Did("pointerDown")
  /\ UNCHANGED view
  /\ UNCHANGED <<clock, loads, ioVars>>
  /\ AutosaveEffect

PointerMove(pos, withTouches) ==
  /\ store.document # Null
  /\ draftPath # Null
  /\ withTouches => activePointers >= 2
  /\ draftPath' = handlePointerMove(draftPath, pos, withTouches, store.document.image_size)
  /\ Len(draftPath'.points) <= MaxPath
  /\ rejected' = NoReason
  /\ Did("pointerMove")
  /\ UNCHANGED view
  /\ UNCHANGED <<store, activePointers, secondTouchSeen, clock, loads, ioVars>>
  /\ AutosaveEffect

\* handlePointerUp: finalizeDraft
PointerUp ==
  /\ store.document # Null
  /\ activePointers >= 1
  /\ LET r == finalizeDraft(store, draftPath, clock)
     IN /\ Len(r.store.history) <= MaxHistory
        /\ shapeCount(r.store.document) <= MaxShapes
        /\ store' = r.store
        /\ draftPath' = r.draftPath
        /\ rejected' = r.rejected
  /\ activePointers' = activePointers - 1
  /\ Did("pointerUp")
  /\ UNCHANGED view
  /\ UNCHANGED <<secondTouchSeen, clock, loads, ioVars>>
  /\ AutosaveEffect

handlePointerCancel_keepDraft(draft) == draft

\* handlePointerCancel: setDraftPath(null)
handlePointerCancel(draft) == Null

PointerCancel ==
  /\ store.document # Null
  /\ activePointers >= 1
  /\ draftPath' = handlePointerCancel(draftPath)
  /\ rejected' = NoReason
  /\ activePointers' = activePointers - 1
  /\ Did("pointerCancel")
  /\ UNCHANGED view
  /\ UNCHANGED <<store, secondTouchSeen, clock, loads, ioVars>>
  /\ AutosaveEffect

SetTool(tool) ==
  /\ store.document # Null
  /\ store' = setTool(store, tool)
  /\ rejected' = NoReason
  /\ Did("setTool")
  /\ UNCHANGED view
  /\ UNCHANGED <<draftPath, activePointers, secondTouchSeen, clock, loads, ioVars>>
  /\ AutosaveEffect

\* Line.onPointerDown on shape j of layer i with the erase or the select tool
ShapePointerDown(i, j) ==
  /\ store.document # Null
  /\ i \in 1..Len(store.document.layers)
  /\ LET layer == store.document.layers[i]
     IN /\ layer.visible
        /\ j \in 1..Len(layer.shapes)
        /\ \/ /\ store.tool = "erase"
              /\ layer.locked
              /\ rejected' = RejectLocked
              /\ Did("eraseRefused")
              /\ UNCHANGED view
              /\ UNCHANGED store
           \/ /\ store.tool = "erase"
              /\ ~layer.locked
              /\ HistoryRoom
              /\ store' = deleteShape(store, layer.id, layer.shapes[j].id)
              /\ rejected' = NoReason
              /\ Did("deleteShape")
              /\ UNCHANGED view
           \/ /\ store.tool = "select"
              /\ store' = selectShape(store, layer.id, layer.shapes[j].id)
              /\ rejected' = NoReason
              /\ Did("selectShape")
              /\ UNCHANGED view
  /\ UNCHANGED <<draftPath, activePointers, secondTouchSeen, clock, loads, ioVars>>
  /\ AutosaveEffect

\* Line.onDragEnd: the shape moved by offset, every point clamped to the image
ShapeDragEnd(i, j, offset) ==
  /\ store.document # Null
  /\ HistoryRoom
  /\ store.tool = "select"
  /\ i \in 1..Len(store.document.layers)
  /\ LET layer == store.document.layers[i]
     IN /\ layer.visible
        /\ ~layer.locked
        /\ j \in 1..Len(layer.shapes)
        /\ store' = updateShape(store, layer.id,
                      [layer.shapes[j] EXCEPT !.points =
                         draggedPoints(layer.shapes[j], offset.x, offset.y,
                                       store.document.image_size)])
  /\ rejected' = NoReason
  /\ Did("updateShape")
  /\ UNCHANGED view
  /\ UNCHANGED <<draftPath, activePointers, secondTouchSeen, clock, loads, ioVars>>
  /\ AutosaveEffect

\* handleDeleteSelected: the Delete / Backspace key
DeleteSelected ==
  /\ store.document # Null
  /\ HistoryRoom
  /\ store.selectedLayerId # NullId
  /\ store.selectedShapeId # NullId
  /\ store' = selectShape(deleteShape(store, store.selectedLayerId, store.selectedShapeId),
                          store.selectedLayerId, NullId)
  /\ rejected' = NoReason
  /\ Did("deleteShape")
  /\ UNCHANGED view
  /\ UNCHANGED <<draftPath, activePointers, secondTouchSeen, clock, loads, ioVars>>
  /\ AutosaveEffect

\* a document for imgA is open: the first load found no stored annotation
InitStroke ==
  /\ store = loadDocumentForIndex(setCurrentImageIndex(InitialStore, 0), 0,
                                  [kind |-> "null"], 1)
  /\ draftPath = Null
  /\ activePointers = 0
  /\ rejected = NoReason
  /\ clock = 1
  /\ loads = {}
  /\ lastOp = "setDocument"
  /\ afterUndo = FALSE
  /\ secondTouchSeen = FALSE
  /\ InitIO

\* the gesture machine: pointer events with the draw tool, interleaved with the
\* layer panel and undo / redo
NextStroke ==
  \/ Tick
  \/ \E pos \in Positions : \E withTouches \in BOOLEAN : PointerDown(pos, withTouches)
  \/ \E pos \in Positions : \E withTouches \in BOOLEAN : PointerMove(pos, withTouches)
  \/ PointerUp
  \/ PointerCancel
  \/ \E layerId \in layerIds : UpdateLayer(layerId, "locked")
  \/ \E layerId \in layerIds : RemoveLayer(layerId)
  \/ Undo
  \/ Redo

SpecStroke == InitStroke /\ [][NextStroke]_vars

\* pointer positions on the edges of the spacing and closure thresholds: 2 and
\* 4 pixels from the origin, and 32 pixels from it
GatePositions ==
  { [x |-> 0, y |-> 0], [x |-> 2, y |-> 0], [x |-> 4, y |-> 0],
    [x |-> 0, y |-> 21], [x |-> 32, y |-> 0] }

\* the gesture machine driven by one pointer over those positions
NextGate ==
  \/ Tick
  \/ \E pos \in GatePositions : PointerDown(pos, FALSE)
  \/ \E pos \in GatePositions : PointerMove(pos, FALSE)
  \/ PointerUp
  \/ PointerCancel
  \/ Undo

SpecGate == InitStroke /\ [][NextGate]_vars

\* the delete button of the layer panel, disabled while one layer is left
LayerPanelDelete(layerId) ==
  /\ store.document # Null
  /\ HistoryRoom
  /\ layerId \in layerIds
  /\ ~(layerCount <= 1)
  /\ store' = removeLayer(store, layerId)
  /\ Did("removeLayer")
  /\ UNCHANGED view
  /\ rejected' = NoReason
  /\ UNCHANGED <<draftPath, activePointers, secondTouchSeen, clock, loads, ioVars>>
  /\ AutosaveEffect

\* the first load answered with a stored legacy document: one layer holding
\* the polygon the circle was resampled into
InitEdit ==
  /\ store = loadDocumentForIndex(setCurrentImageIndex(InitialStore, 0), 0,
                                  [kind |-> "doc", data |-> legacyCircleDoc(Images[1])], 1)
  /\ draftPath = Null
  /\ activePointers = 0
  /\ rejected = NoReason
  /\ clock = 1
  /\ loads = {}
  /\ lastOp = "setDocument"
  /\ afterUndo = FALSE
  /\ secondTouchSeen = FALSE
  /\ InitIO

\* editing committed shapes through the toolbar, the canvas and the layer panel
NextEdit ==
  \/ Tick
  \/ \E tool \in {"select", "erase"} : SetTool(tool)
  \/ \E i \in 1..MaxLayers : \E j \in 1..MaxShapes : ShapePointerDown(i, j)
  \/ \E i \in 1..MaxLayers : \E j \in 1..MaxShapes : \E offset \in DragOffsets :
       ShapeDragEnd(i, j, offset)
  \/ DeleteSelected
  \/ AddLayer
  \/ \E layerId \in layerIds : UpdateLayer(layerId, "locked")
  \/ \E layerId \in layerIds : LayerPanelDelete(layerId)
  \/ Undo
  \/ Redo

SpecEdit == InitEdit /\ [][NextEdit]_vars

\* ------------------------------------------------- saving and autosave (App.tsx)
MaxSaves == 2

\* the render guards: the editor is on screen only without an error and with
\* an open document
EditorRendered == appError = NoError /\ store.document # Null

\* saveDocument up to its await: the request carries the document it was given
saveRequest(doc, isAutosave) ==
  [image_id |-> doc.image_id, doc |-> doc, autosave |-> isAutosave]

saveDocument_cleanOnFailure(s, err, req, ok) ==
  IF ok THEN [store |-> markDirty(s, FALSE), error |-> err]
  ELSE [store |-> markDirty(s, FALSE), error |-> IF req.autosave THEN err ELSE SaveFailed]

saveDocument_restoresSent(s, err, req, ok) ==
  IF ok THEN [store |-> markDirty([s EXCEPT !.document = req.doc], FALSE), error |-> err]
  ELSE [store |-> s, error |-> IF req.autosave THEN err ELSE SaveFailed]

\* saveDocument after its await: the new store and error state
saveDocument(s, err, req, ok) ==
  IF ok THEN [store |-> markDirty(s, FALSE), error |-> err]
  ELSE [store |-> s, error |-> IF req.autosave THEN err ELSE SaveFailed]

\* the save button
SaveRequest ==
  /\ store.document # Null
  /\ saveRequest(store.document, FALSE) \notin saves
  /\ Cardinality(saves) < MaxSaves
  /\ saves' = saves \cup {saveRequest(store.document, FALSE)}
  /\ Did("saveRequest")
  /\ UNCHANGED view
  /\ UNCHANGED <<store, canvasVars, clock, loads, appError, server>>
  /\ AutosaveEffect

\* the POST of a save request answered
SaveResponse(req, ok) ==
  /\ req \in saves
  /\ saves' = saves \ {req}
  /\ LET r == saveDocument(store, appError, req, ok)
     IN /\ store' = r.store
        /\ appError' = r.error
  /\ Did(IF ok THEN "saveDone" ELSE "saveFailed")
  /\ UNCHANGED view
  /\ UNCHANGED <<canvasVars, clock, loads, server>>
  /\ AutosaveEffect

\* time passes; a due interval callback runs before more time passes
Advance ==
  /\ timer < AUTOSAVE_INTERVAL
  /\ timer' = timer + TimeStep
  /\ dirtyAge' = IF store.document # Null /\ store.isDirty
                  THEN Min2(dirtyAge + TimeStep, AUTOSAVE_INTERVAL + TimeStep)
                  ELSE 0
  /\ Did("advance")
  /\ UNCHANGED view
  /\ UNCHANGED <<store, canvasVars, clock, loads, ioVars>>

\* the setInterval callback of the autosave effect
AutosaveTick ==
  /\ timer >= AUTOSAVE_INTERVAL
  /\ timer' = 0
  /\ IF store.document # Null /\ store.isDirty
     THEN /\ Cardinality(saves \cup {saveRequest(store.document, TRUE)}) <= MaxSaves
          /\ saves' = saves \cup {saveRequest(store.document, TRUE)}
          /\ dirtyAge' = 0
     ELSE UNCHANGED <<saves, dirtyAge>>
  /\ Did("autosaveTick")
  /\ UNCHANGED view
  /\ UNCHANGED <<store, canvasVars, clock, loads, appError, server>>

\* one image open after the first load; the user edits, navigates and saves
\* while requests complete in any order
\* user input is handled while the editor is on screen; a due interval
\* callback runs first
InputTurn == EditorRendered /\ timer < AUTOSAVE_INTERVAL

NextPersist ==
  \/ Advance
  \/ AutosaveTick
  \/ InputTurn /\ (\E index \in 0..(Len(Images) - 1) : LoadRequest(index))
  \/ \E index \in loads : \E res \in {[kind |-> "null"], [kind |-> "error"]} :
       LoadResponse(index, res)
  \/ InputTurn /\ (\E layerId \in layerIds : UpdateLayer(layerId, "locked"))
  \/ InputTurn /\ Undo
  \/ InputTurn /\ Redo
  \/ InputTurn /\ SaveRequest
  \/ \E req \in saves : \E ok \in BOOLEAN : SaveResponse(req, ok)

SpecPersist == InitStroke /\ [][NextPersist]_vars

\* ------------------------------------ storage adapter calls (fsAdapter.ts)
\* One annotation path and its temporary path `${annotationPath}.tmp-${pid}`,
\* which every write call of the process shares.  A path names an inode; an
\* open file keeps writing to its inode whatever the paths name afterwards.
Hole == <<0, 0>>

\* the file content after writing chunk at position k
writeAt(content, k, chunk) ==
  [i \in 1..Max2(Len(content), k) |->
     IF i = k THEN chunk ELSE IF i <= Len(content) THEN content[i] ELSE Hole]

\* writeAnnotation, fs.writeFile(tmpPath): open with flag 'w' creates the
\* file or truncates the one the path names
WriteOpen(w) ==
  /\ server.pc[w] = "idle"
  /\ LET ino == IF server.tmp # NoInode THEN server.tmp ELSE Len(server.inodes) + 1
     IN server' = [server EXCEPT
                     !.tmp = ino,
                     !.inodes = IF server.tmp # NoInode
                                THEN [server.inodes EXCEPT ![ino] = <<>>]
                                ELSE Append(server.inodes, <<>>),
                     !.pc[w] = "open",
                     !.fd[w] = ino,
                     !.off[w] = 0]
  /\ Did("writeOpen")
  /\ UNCHANGED view
  /\ UNCHANGED <<store, canvasVars, clock, loads, saves, appError, timer, dirtyAge>>

\* fs.writeFile writes the next chunk at its own offset, closing after the last
WriteChunk(w) ==
  /\ server.pc[w] = "open"
  /\ LET k == server.off[w] + 1
         ino == server.fd[w]
     IN server' = [server EXCEPT
                     !.inodes[ino] = writeAt(server.inodes[ino], k, bodyOf(w)[k]),
                     !.off[w] = k,
                     !.pc[w] = IF k = Chunks THEN "written" ELSE "open"]
  /\ Did("writeChunk")
  /\ UNCHANGED view
  /\ UNCHANGED <<store, canvasVars, clock, loads, saves, appError, timer, dirtyAge>>

\* fs.rename(tmpPath, annotationPath): fails with ENOENT when tmpPath is gone
WriteRename(w) ==
  /\ server.pc[w] = "written"
  /\ server' = IF server.tmp # NoInode
               THEN [server EXCEPT !.ann = server.tmp, !.tmp = NoInode, !.pc[w] = "done"]
               ELSE [server EXCEPT !.pc[w] = "failed"]
  /\ Did("writeRename")
  /\ UNCHANGED view
  /\ UNCHANGED <<store, canvasVars, clock, loads, saves, appError, timer, dirtyAge>>

\* readAnnotation: null for ENOENT, else the content of the file
ReadAnnotation ==
  /\ server' = [server EXCEPT !.read =
                  IF server.ann = NoInode THEN [kind |-> "null"]
                  ELSE [kind |-> "body", content |-> server.inodes[server.ann]]]
  /\ Did("readAnnotation")
  /\ UNCHANGED view
  /\ UNCHANGED <<store, canvasVars, clock, loads, saves, appError, timer, dirtyAge>>

\* the write calls of concurrent save requests for one image, and reads
NextServer ==
  \/ \E w \in 1..MaxWrites : WriteOpen(w)
  \/ \E w \in 1..MaxWrites : WriteChunk(w)
  \/ \E w \in 1..MaxWrites : WriteRename(w)
  \/ ReadAnnotation

SpecServer == Init /\ [][NextServer]_vars

\* ------------------------------------------- persisted JSON (AnnotationService)
\* JSON.stringify(payload): the document as nested arrays of its values, the
\* points of a shape flattened to x1, y1, x2, y2, ...
stringifyShape(shape) ==
  << shape.id, "freehand",
     [k \in 1..(2 * Len(shape.points)) |->
        IF k % 2 = 1 THEN shape.points[(k + 1) \div 2].x ELSE shape.points[k \div 2].y],
     shape.closed >>

stringifyLayer(layer) ==
  << layer.id, layer.name, layer.visible, layer.locked, layer.z,
     [j \in 1..Len(layer.shapes) |-> stringifyShape(layer.shapes[j])] >>

JSONstringify(doc) ==
  << doc.image_id, <<doc.image_size.w, doc.image_size.h>>,
     [i \in 1..Len(doc.layers) |-> stringifyLayer(doc.layers[i])] >>

\* JSON.parse(raw)
parseShape(t) ==
  [id |-> t[1], type |-> t[2],
   points |-> [k \in 1..(Len(t[3]) \div 2) |-> [x |-> t[3][2 * k - 1], y |-> t[3][2 * k]]],
   closed |-> t[4]]

parseLayer(t) ==
  [id |-> t[1], name |-> t[2], visible |-> t[3], locked |-> t[4], z |-> t[5],
   shapes |-> [j \in 1..Len(t[6]) |-> parseShape(t[6][j])]]

JSONparse(raw) ==
  [image_id |-> raw[1], image_size |-> [w |-> raw[2][1], h |-> raw[2][2]],
   layers |-> [i \in 1..Len(raw[3]) |-> parseLayer(raw[3][i])]]

imageById(id) == CHOOSE image \in {Images[i] : i \in 1..Len(Images)} : image.id = id

\* the document a later load opens after doc was saved: saveAnnotation stores
\* the stringified body, getAnnotation parses it, the client upgrades it
reloaded(doc) == upgradeDocument(imageById(doc.image_id), JSONparse(JSONstringify(doc)))

\* --------------------------------------------------- drawing and editing
\* pointer paths of whole gestures, in image pixels
SampleStrokes ==
  { << [x |-> 0, y |-> 0], [x |-> 20, y |-> 0], [x |-> 0, y |-> 21] >>,
    << [x |-> 20, y |-> 21], [x |-> 0, y |-> 21], [x |-> 20, y |-> 0] >>,
    << [x |-> 0, y |-> 0], [x |-> 240, y |-> -6] >> }

RECURSIVE movesAlong(_, _, _, _)
\* handlePointerMove applied for the positions path[i..] in turn
movesAlong(draft, path, i, imageSize) ==
  IF i > Len(path) THEN draft
  ELSE movesAlong(handlePointerMove(draft, path[i], FALSE, imageSize), path, i + 1, imageSize)

\* most shapes a layer holds when whole strokes are drawn
MaxDrawn == 2

\* one pointer going down, moving along path and going up on an idle canvas
DrawStroke(path) ==
  /\ store.document # Null
  /\ store.tool = "draw"
  /\ draftPath = Null
  /\ activePointers = 0
  /\ LET down == handlePointerDown(store, draftPath, path[1], FALSE)
         draft == movesAlong(down.draftPath, path, 2, store.document.image_size)
         r == finalizeDraft(down.store, draft, clock)
     IN /\ Len(r.store.history) <= MaxHistory
        /\ \A i \in 1..Len(r.store.document.layers) :
             Len(r.store.document.layers[i].shapes) <= MaxDrawn
        /\ store' = r.store
        /\ draftPath' = r.draftPath
        /\ rejected' = IF down.rejected # NoReason THEN down.rejected ELSE r.rejected
  /\ Did("pointerUp")
  /\ UNCHANGED view
  /\ UNCHANGED <<activePointers, secondTouchSeen, clock, loads, ioVars>>
  /\ AutosaveEffect

\* the active-layer selector of the toolbar
SelectLayer(layerId) ==
  /\ store.document # Null
  /\ layerId \in layerIds
  /\ store' = selectShape(store, layerId, NullId)
  /\ rejected' = NoReason
  /\ Did("selectLayer")
  /\ UNCHANGED view
  /\ UNCHANGED <<draftPath, activePointers, secondTouchSeen, clock, loads, ioVars>>
  /\ AutosaveEffect

\* a stored document with two empty layers
twoLayerDoc(image) ==
  [image_id |-> image.id, image_size |-> imageSizeOf(image),
   layers |-> << [id |-> 90, name |-> "first", visible |-> TRUE, locked |-> FALSE,
                  z |-> 1, shapes |-> <<>>],
                 [id |-> 93, name |-> "second", visible |-> TRUE, locked |-> FALSE,
                  z |-> 2, shapes |-> <<>>] >>]

\* the first load answered with the stored two-layer document
InitDraw ==
  /\ store = loadDocumentForIndex(setCurrentImageIndex(InitialStore, 0), 0,
                                  [kind |-> "doc", data |-> twoLayerDoc(Images[1])], 1)
  /\ draftPath = Null
  /\ activePointers = 0
  /\ rejected = NoReason
  /\ clock = 1
  /\ loads = {}
  /\ lastOp = "setDocument"
  /\ afterUndo = FALSE
  /\ secondTouchSeen = FALSE
  /\ InitIO

\* whole strokes drawn on the layers of a document, and the shapes edited
NextDraw ==
  \/ Tick
  \/ \E tool \in {"draw", "select", "erase"} : SetTool(tool)
  \/ \E path \in SampleStrokes : DrawStroke(path)
  \/ \E layerId \in layerIds : SelectLayer(layerId)
  \/ \E i \in 1..MaxLayers : \E j \in 1..MaxDrawn : ShapePointerDown(i, j)
  \/ \E i \in 1..MaxLayers : \E j \in 1..MaxDrawn : \E offset \in DragOffsets :
       ShapeDragEnd(i, j, offset)
  \/ DeleteSelected
  \/ \E layerId \in layerIds : LayerPanelDelete(layerId)
  \/ AddLayer
  \/ Undo
  \/ Redo

SpecDraw == InitDraw /\ [][NextDraw]_vars

\* ------------------------------------------------- viewport events (CanvasStage)
MaxResets == 1

\* contentRect sizes the ResizeObserver reports, in pixels
ContainerSizes ==
  { [width |-> 0, height |-> 0], [width |-> 400, height |-> 200],
    [width |-> 100, height |-> 100] }

\* stage.getPointerPosition() of a wheel event
StagePointers == { [x |-> 0, y |-> 0], [x |-> 100 * PosUnit, y |-> 100 * PosUnit] }

\* two touches: their distance in pixels and their midpoint
TouchSamples ==
  { [distance |-> d, center |-> [x |-> 100 * PosUnit, y |-> 100 * PosUnit]] :
      d \in {0, 100, 150, 1000} }
  \cup { [distance |-> 100, center |-> [x |-> 140 * PosUnit, y |-> 100 * PosUnit]] }

\* positions Konva proposes while the stage is dragged
DragTargets ==
  { [x |-> (0 - 2000) * PosUnit, y |-> (0 - 2000) * PosUnit],
    [x |-> 60 * PosUnit, y |-> (0 - 40) * PosUnit],
    [x |-> 2000 * PosUnit, y |-> 2000 * PosUnit] }

\* a handler of CanvasStage ran and the component rendered with its updates
ViewStep(op, v) ==
  /\ view' = v
  /\ Did(op)
  /\ UNCHANGED <<store, canvasVars, clock, loads, ioVars>>
  /\ AutosaveEffect

\* events are handled once the effects of the last render have run; the Stage
\* exists only with a document and a non-zero container
StageRendered ==
  /\ store.document # Null
  /\ ~effectsPending(view)
  /\ view.containerSize.width # 0
  /\ view.containerSize.height # 0

\* the ResizeObserver callback
Resize(size) ==
  /\ store.document # Null
  /\ ~effectsPending(view)
  /\ size \in ContainerSizes
  /\ size # view.containerSize
  /\ ViewStep("resize", [view EXCEPT !.containerSize = size])

\* the zoom reset button of App: setResetViewportKey((v) => v + 1)
ResetViewport ==
  /\ store.document # Null
  /\ ~effectsPending(view)
  /\ view.resetViewportKey < MaxResets
  /\ ViewStep("resetViewport", [view EXCEPT !.resetViewportKey = @ + 1])

Wheel(pointer, deltaY) ==
  /\ StageRendered
  /\ ViewStep("wheel", handleWheel(view, store.document.image_size, pointer, deltaY))

\* most fingers on the stage at once
MaxTouches == 3

\* handleTouchStart: one more finger lands; the refs are set only if the event
\* carries exactly two touches
TouchStart(sample) ==
  /\ StageRendered
  /\ view.touches < MaxTouches
  /\ ViewStep("touchStart",
              IF view.touches + 1 = 2
              THEN [view EXCEPT !.touches = 2, !.lastPair = sample,
                                !.pinchDistance = sample.distance,
                                !.pinchCenter = sample.center]
              ELSE [view EXCEPT !.touches = @ + 1])

\* handleTouchMove: ignored unless the event carries exactly two touches
TouchMove(sample) ==
  /\ StageRendered
  /\ view.touches >= 1
  /\ ViewStep("touchMove",
              IF view.touches = 2
              THEN [handleTouchMove(view, store.document.image_size,
                                    sample.distance, sample.center)
                      EXCEPT !.lastPair = sample]
              ELSE view)

\* handleTouchEnd: a finger lifts
TouchEnd ==
  /\ StageRendered
  /\ view.touches >= 1
  /\ ViewStep("touchEnd", [view EXCEPT !.touches = @ - 1, !.lastPair = Null,
                                       !.pinchDistance = NoDistance,
                                       !.pinchCenter = Null])

\* a drag of the Stage with the pan tool: dragBoundFunc, then handleDragMove
StageDrag(target) ==
  /\ StageRendered
  /\ store.tool = "pan"
  /\ LET bound == clampStagePosition(view.containerSize, store.document.image_size,
                                     target, view.stageScale)
         nextPos == clampStagePosition(view.containerSize, store.document.image_size,
                                       bound, view.stageScale)
     IN ViewStep("stageDrag", [view EXCEPT !.stagePosition = nextPos,
                                           !.stagePositionRef = nextPos])

\* the keydown handler on Ctrl/Meta + 0
KeyboardReset ==
  /\ store.document # Null
  /\ ~effectsPending(view)
  /\ ViewStep("keyboardReset", [view EXCEPT !.stageScale = ScaleUnit,
                                            !.stagePosition = [x |-> 0, y |-> 0]])

\* the effects of the last render run and the component renders again
ViewEffects ==
  /\ store.document # Null
  /\ effectsPending(view)
  /\ ViewStep("viewEffects", runEffects(view, store.document.image_size))

\* one image open; the user zooms, pans and resets while the container resizes
NextViewport ==
  \/ \E size \in ContainerSizes : Resize(size)
  \/ ResetViewport
  \/ \E pointer \in StagePointers : \E deltaY \in {0 - 1, 1} : Wheel(pointer, deltaY)
  \/ \E sample \in TouchSamples : TouchStart(sample)
  \/ \E sample \in TouchSamples : TouchMove(sample)
  \/ TouchEnd
  \/ \E target \in DragTargets : StageDrag(target)
  \/ KeyboardReset
  \/ ViewEffects
  \/ ~effectsPending(view) /\ (\E tool \in {"draw", "pan"} : SetTool(tool))

SpecViewport == InitStroke /\ [][NextViewport]_vars

\* --------------------------------------------------- applyZoom on its inputs
\* target scales handed to applyZoom, in 1/ScaleUnit; the smallest and the
\* largest lie outside [MIN_STAGE_SCALE, MAX_STAGE_SCALE]
ZoomTargets == {1, 50, 95, 100, 105, 150, 2000}

\* viewports applyZoom starts from: a measured container, a scale within the
\* limits and a translation clampStagePosition returned for that scale; the
\* refs hold the rendered values
ZoomViews ==
  { [InitialView EXCEPT
       !.containerSize = size, !.stageScale = scale, !.stageScaleRef = scale,
       !.stagePosition = clampStagePosition(size, imageSizeOf(Images[1]), target, scale),
       !.stagePositionRef = clampStagePosition(size, imageSizeOf(Images[1]), target, scale),
       !.seen = [stageScale |-> scale,
                 stagePosition |-> clampStagePosition(size, imageSizeOf(Images[1]),
                                                      target, scale),
                 containerSize |-> size, resetViewportKey |-> 0]] :
      size \in ContainerSizes \ {[width |-> 0, height |-> 0]},
      scale \in {50, 100, 105, 400},
      target \in DragTargets }

InitZoom ==
  /\ store = loadDocumentForIndex(setCurrentImageIndex(InitialStore, 0), 0,
                                  [kind |-> "null"], 1)
  /\ draftPath = Null
  /\ activePointers = 0
  /\ rejected = NoReason
  /\ clock = 1
  /\ loads = {}
  /\ lastOp = "setDocument"
  /\ afterUndo = FALSE
  /\ secondTouchSeen = FALSE
  /\ saves = {}
  /\ appError = NoError
  /\ timer = 0
  /\ dirtyAge = 0
  /\ server = InitialServer
  /\ capturedBefore = 0
  /\ view \in ZoomViews

\* one call of applyZoom and the render of its updates
ApplyZoom(pointer, scale) ==
  /\ lastOp = "setDocument"
  /\ ViewStep("applyZoom", applyZoom(view, store.document.image_size, pointer, scale))

NextZoom == \E pointer \in StagePointers : \E scale \in ZoomTargets : ApplyZoom(pointer, scale)

SpecZoom == InitZoom /\ [][NextZoom]_vars

\* ====================================================================== claims
docLayers == store.document.layers

allShapes(doc) ==
  {doc.layers[i].shapes[j] :
     <<i, j>> \in {<<a, b>> \in (1..Len(doc.layers)) \X (1..(MaxShapes + 1)) :
                     b <= Len(doc.layers[a].shapes)}}

sameDocumentAndStacks(a, b) ==
  /\ a.document = b.document
  /\ a.history = b.history
  /\ a.future = b.future

\* C1: after any mutating store operation on an open document the redo stack
\* (future) is empty and canRedo is false.
C1_MutationClearsRedo ==
  lastOp \in Mutators => (store.future = <<>> /\ store.canRedo = FALSE)

\* a mutation applied right after an undo, i.e. while a redo stack existed
C1_Witness == lastOp \in Mutators /\ afterUndo

\* C2: whenever undo() pops a history entry, a redo() applied to the state it
\* produces gives back the document, the undo stack and the redo stack that
\* were there before the undo.
C2_UndoThenRedoRestores ==
  [][(lastOp' = "undo" /\ store.history # <<>>)
       => sameDocumentAndStacks(redo(store'), store)]_vars

\* a redo that ran right after an undo, with an older entry still on the stack
C2_Witness == lastOp = "redo" /\ afterUndo /\ Len(store.history) >= 2

\* C3: removeLayer on a document with exactly one layer, naming that layer,
\* changes nothing in the store.
C3_LastLayerRemovalRefused ==
  [][(lastOp' = "removeLayer" /\ Len(docLayers) = 1) => store' = store]_vars

\* C4: an open document always has at least one layer.
C4_AtLeastOneLayer ==
  store.document # Null => Len(docLayers) >= 1

\* C5: a mutating store operation on an open document appends exactly the
\* pre-operation document to the undo stack and leaves isDirty true.
C5_MutationPushesSnapshot ==
  [][(lastOp' \in Mutators /\ store.document # Null)
       => (/\ store'.history = Append(store.history, store.document)
           /\ store'.isDirty = TRUE)]_vars

\* a mutation that pushed onto an undo stack already holding an entry
C5_Witness == lastOp \in Mutators /\ Len(store.history) >= 2 /\ store.isDirty

\* C6: right after removeLayer or deleteShape the selection names no layer or
\* shape that is absent from the document.
C6_SelectionNeverDangling ==
  lastOp \in {"removeLayer", "deleteShape"} =>
    /\ store.selectedShapeId # NullId =>
         \E sh \in allShapes(store.document) : sh.id = store.selectedShapeId
    /\ store.selectedLayerId # NullId => store.selectedLayerId \in layerIds

\* C7: a second pointer arriving during a capture discards the draft, and no
\* pointer-up of that gesture commits a shape.
C7_SecondTouchAborts ==
  [][/\ (lastOp' = "pointerDown" /\ activePointers >= 1 /\ draftPath # Null)
          => draftPath' = Null
     /\ (lastOp' = "pointerUp" /\ secondTouchSeen)
          => store'.document = store.document]_vars

farApart(points) ==
  hypot2(points[1], points[Len(points)]) > CLOSE_THRESHOLD * CLOSE_THRESHOLD

\* C8 as stated: every stroke, of any length, released with its first and
\* last points farther apart than the closure threshold commits no shape and
\* emits the "not closed" reason.
C8_OpenStrokeAlwaysReported ==
  [][(lastOp' = "pointerUp" /\ draftPath # Null /\ farApart(draftPath.points))
       => (/\ store'.document = store.document
           /\ rejected' = RejectNotClosed)]_vars

\* C8 amended: such a stroke never commits a shape; it emits the "not closed"
\* reason exactly when it has at least 3 points and the document has a layer,
\* and is discarded without a reason otherwise.
C8_OpenStrokeRejected ==
  [][(lastOp' = "pointerUp" /\ draftPath # Null /\ farApart(draftPath.points))
       => (/\ store' = store
           /\ draftPath' = Null
           /\ rejected' = IF Len(draftPath.points) >= 3 /\ layerCount >= 1
                          THEN RejectNotClosed ELSE NoReason)]_vars

\* an open stroke was released and reported
C8_Witness == lastOp = "pointerUp" /\ rejected = RejectNotClosed

normalizedArea2(points, imageSize) ==
  polygonArea2([i \in 1..Len(points) |-> normalize(points[i], imageSize)])

\* C9: a stroke whose normalized polygon area is below the minimum-area
\* threshold commits no shape at pointer-up, closed or not.
C9_SmallStrokeNeverCommitted ==
  [][(/\ lastOp' = "pointerUp"
      /\ draftPath # Null
      /\ normalizedArea2(draftPath.points, store.document.image_size) < 2 * MIN_POLYGON_AREA)
       => (store' = store /\ draftPath' = Null)]_vars

\* a closed stroke was released and refused for its area
C9_Witness == lastOp = "pointerUp" /\ rejected = RejectArea

\* C10: every shape in the store's document has normalized polygon area at
\* least the minimum-area threshold.
C10_ShapesMeetMinimumArea ==
  store.document # Null =>
    \A sh \in allShapes(store.document) : polygonArea2(sh.points) >= 2 * MIN_POLYGON_AREA

\* C11: every shape in the store's document has at least 3 points, shapes that
\* came in through loading and upgrading a stored document included.
C11_ShapesHaveThreePoints ==
  store.document # Null =>
    \A sh \in allShapes(store.document) : Len(sh.points) >= 3

\* C20: a pointer-down with the draw tool on an idle canvas whose active layer
\* is locked creates no draft, emits the locked-layer reason and leaves the
\* store (document, history, selection) as it was.
C20_LockedLayerRefusesCapture ==
  [][(/\ lastOp' = "pointerDown"
      /\ activePointers = 0
      /\ draftPath = Null
      /\ store.tool = "draw"
      /\ getActiveLayer(store) # Null
      /\ getActiveLayer(store).locked)
     => (draftPath' = Null /\ rejected' = RejectLocked /\ store' = store)]_vars

\* a pointer went down on a locked layer and was refused
C20_Witness ==
  /\ lastOp = "pointerDown"
  /\ rejected = RejectLocked
  /\ draftPath = Null
  /\ activePointers = 1

\* C12: the completion of a save or autosave issued for one image, arriving
\* while the open document belongs to another image, changes nothing in the
\* store; in particular the dirty flag of the open document stays as it was.
C12_StaleSaveDiscarded ==
  [][(/\ lastOp' \in {"saveDone", "saveFailed"}
      /\ store.document # Null
      /\ \E req \in saves \ saves' : req.image_id # store.document.image_id)
     => store' = store]_vars

\* C13: when a save completes successfully while the dirty document differs
\* from the one the request carried (it was changed while the request was in
\* flight), the document is still marked dirty afterwards.
C13_DirtySurvivesOverlappedSave ==
  [][(/\ lastOp' = "saveDone"
      /\ store.document # Null
      /\ store.isDirty
      /\ \E req \in saves \ saves' : /\ req.image_id = store.document.image_id
                                      /\ req.doc # store.document)
     => store'.isDirty]_vars

\* C14: the open document is never dirty for longer than one autosave
\* interval without an autosave request having been issued for it.
C14_UnsavedWindowBounded == dirtyAge <= AUTOSAVE_INTERVAL

\* C15: once no load is in flight, the open document is the one of the image
\* at currentImageIndex.
C15_DocumentMatchesCurrentImage ==
  (loads = {} /\ store.document # Null)
    => store.document.image_id = Images[store.currentImageIndex + 1].id

\* C16: right after a save has failed the editor is still on screen, with the
\* document open, so that drawing, undo / redo and saving stay available.
C16_SaveFailureNotTerminal == lastOp = "saveFailed" => EditorRendered

\* C17: whatever way write calls and reads interleave, a read returns null or
\* the complete body of exactly one write, and no write call ends in an error.
C17_WritesAreAtomic ==
  /\ server.read.kind = "body" =>
       \E w \in 1..MaxWrites : server.read.content = bodyOf(w)
  /\ \A w \in 1..MaxWrites : server.pc[w] # "failed"

\* C18: a document the store holds, saved and loaded again (stringified,
\* parsed and passed through upgradeDocument), comes back deep-equal.
C18_SavedDocumentRoundTrips ==
  store.document # Null => reloaded(store.document) = store.document

\* C19: no two shapes of the open document, in the same or in different
\* layers, share an id.
C19_ShapeIdsUnique ==
  store.document # Null =>
    \A i1, i2 \in 1..Len(store.document.layers) :
      \A j1 \in 1..Len(store.document.layers[i1].shapes) :
        \A j2 \in 1..Len(store.document.layers[i2].shapes) :
          store.document.layers[i1].shapes[j1].id = store.document.layers[i2].shapes[j2].id
            => (i1 = i2 /\ j1 = j2)

\* C21: a pointer-up on a draft with fewer than 3 points commits nothing,
\* emits no rejection reason and leaves no draft.
C21_ShortDraftSilentlyDiscarded ==
  [][(lastOp' = "pointerUp" /\ draftPath # Null /\ Len(draftPath.points) < 3)
     => (store' = store /\ rejected' = NoReason /\ draftPath' = Null)]_vars

\* a draft of one or two points was released
C21_Witness ==
  /\ lastOp = "pointerUp"
  /\ capturedBefore \in {1, 2}
  /\ draftPath = Null
  /\ rejected = NoReason

\* C22: a pointer-cancel during a capture discards the draft and leaves the
\* document and the undo / redo stacks untouched.
C22_CancelDiscardsDraft ==
  [][(lastOp' = "pointerCancel" /\ draftPath # Null)
     => (/\ draftPath' = Null
         /\ store'.document = store.document
         /\ store'.history = store.history
         /\ store'.future = store.future)]_vars

\* a capture that had gathered three points was cancelled
C22_Witness ==
  /\ lastOp = "pointerCancel"
  /\ capturedBefore >= 3
  /\ draftPath = Null
\* C23: undo() with an empty undo stack and redo() with an empty redo stack
\* change nothing in the store: document, both stacks, the dirty flag and the
\* selection stay as they were.
C23_EmptyStackIsNoOp ==
  [][((lastOp' = "undo" /\ store.history = <<>>)
      \/ (lastOp' = "redo" /\ store.future = <<>>))
     => store' = store]_vars

\* undo was called with nothing to undo while a shape was selected
C23_Witness ==
  /\ lastOp = "undo"
  /\ store.document # Null
  /\ store.history = <<>>
  /\ store.future = <<>>
  /\ store.selectedShapeId # NullId

\* C24: after setDocument both stacks are empty, canUndo and canRedo are false
\* and the dirty flag is cleared; every snapshot the stacks hold afterwards
\* belongs to the image of the open document.
C24_SetDocumentResetsHistory ==
  /\ lastOp = "setDocument"
       => /\ store.history = <<>>
          /\ store.future = <<>>
          /\ ~store.canUndo
          /\ ~store.canRedo
          /\ ~store.isDirty
  /\ store.document # Null
       => /\ \A i \in 1..Len(store.history) :
               store.history[i].image_id = store.document.image_id
          /\ \A i \in 1..Len(store.future) :
               store.future[i].image_id = store.document.image_id

\* a document was set right after an undo that had left a redo entry
C24_Witness ==
  /\ lastOp = "setDocument"
  /\ afterUndo
  /\ store.document.image_id = Images[2].id

\* C25: selectShape changes only the selection: document, both stacks,
\* canUndo, canRedo and the dirty flag are unchanged.
C25_SelectShapeOnlySelects ==
  [][lastOp' = "selectShape"
     => /\ store'.document = store.document
        /\ store'.history = store.history
        /\ store'.future = store.future
        /\ store'.canUndo = store.canUndo
        /\ store'.canRedo = store.canRedo
        /\ store'.isDirty = store.isDirty]_vars

\* a shape was selected right after an undo, with entries on the undo stack
C25_Witness ==
  /\ lastOp = "selectShape"
  /\ afterUndo
  /\ store.history # <<>>
  /\ store.selectedShapeId # NullId

\* C26: a failed save request, explicit or autosave, leaves the dirty flag and
\* the document as they were, and an autosave tick that finds the document
\* dirty issues an autosave request for it.
C26_FailedSaveKeepsDirty ==
  [][/\ lastOp' = "saveFailed"
          => /\ store'.isDirty = store.isDirty
             /\ store'.document = store.document
     /\ (lastOp' = "autosaveTick" /\ store.document # Null /\ store.isDirty)
          => saveRequest(store.document, TRUE) \in saves']_vars

\* after a failed explicit save the next autosave tick has sent the document
C26_Witness ==
  /\ lastOp = "autosaveTick"
  /\ appError = SaveFailed
  /\ store.isDirty
  /\ saves = {saveRequest(store.document, TRUE)}

\* C27: a load whose annotation request answers null or fails ends with the
\* default document of the target image in the store: its id and size, one
\* layer without shapes, that layer selected, no shape selected, a clean
\* dirty flag and empty stacks.
C27_MissingAnnotationGivesDefault ==
  [][lastOp' = "setDocument"
     => \E index \in loads \ loads' :
          LET image == Images[index + 1]
              doc == store'.document
          IN /\ doc.image_id = image.id
             /\ doc.image_size = imageSizeOf(image)
             /\ Len(doc.layers) = 1
             /\ Len(doc.layers[1].shapes) = 0
             /\ ~store'.isDirty
             /\ store'.history = <<>>
             /\ store'.future = <<>>
             /\ store'.selectedLayerId = doc.layers[1].id
             /\ store'.selectedLayerId # NullId
             /\ store'.selectedShapeId = NullId]_vars

\* the load of the second image ended on an edited first image
C27_Witness ==
  /\ lastOp = "setDocument"
  /\ store.currentImageIndex = 1
  /\ store.document.image_id = Images[2].id
  /\ afterUndo = FALSE
  /\ loads = {}

\* C28: a request in flight keeps the document it was issued with whatever
\* happens to the store, a new request carries the document of the moment it
\* is issued, and the completion of a request leaves the document, both
\* stacks and the selection unchanged.
C28_InFlightSavesAreSnapshots ==
  [][/\ \A req \in saves' \ saves :
          req.doc = store.document /\ req.image_id = store.document.image_id
     /\ lastOp' \notin {"saveDone", "saveFailed"} => saves \subseteq saves'
     /\ lastOp' \in {"saveDone", "saveFailed"}
          => /\ store'.document = store.document
             /\ store'.history = store.history
             /\ store'.future = store.future
             /\ store'.selectedLayerId = store.selectedLayerId
             /\ store'.selectedShapeId = store.selectedShapeId]_vars

\* a request completed while another one, sent with an older document, is
\* still in flight
C28_Witness ==
  /\ lastOp = "saveDone"
  /\ \E req \in saves : req.doc # store.document

\* C29: in every viewport state, whatever wheel zooms, pinch zooms, drags,
\* keyboard resets, reset-token changes and container resizes led to it, the
\* scale lies in [0.05, 8].
C29_ScaleWithinBounds ==
  /\ view.stageScale >= MIN_STAGE_SCALE
  /\ view.stageScale <= MAX_STAGE_SCALE

\* a pinch asked for more than the largest scale and was cut to it
C29_Witness ==
  /\ lastOp = "touchMove"
  /\ view.stageScale = MAX_STAGE_SCALE
  /\ view.seen.stageScale = ScaleUnit

C31_FittingAxisCentered ==
  (/\ ~effectsPending(view)
   /\ view.containerSize.width # 0
   /\ view.containerSize.height # 0)
  => LET size == store.document.image_size
         centered(containerLen, imageLen, p) ==
           imageLen * view.stageScale <= containerLen * ScaleUnit
             => p * 2 * ScaleUnit
                  = (containerLen * ScaleUnit - imageLen * view.stageScale) * PosUnit
     IN /\ centered(view.containerSize.width, size.w, view.stagePosition.x)
        /\ centered(view.containerSize.height, size.h, view.stagePosition.y)

\* C32: applyZoom keeps the image point under the pivot: whenever the
\* pivot-preserving translation is one the boundary clamp leaves as it is, the
\* image point (pivot - translation) / scale under the pivot is the same before
\* and after the call, up to the rounding of one translation unit.
C32_ZoomPreservesPivot ==
  [][lastOp' = "applyZoom"
     => \A pointer \in StagePointers : \A scale \in ZoomTargets :
          LET size == store.document.image_size
              nextScale == view'.stageScale
              recomputed ==
                [x |-> pointer.x - ((pointer.x - view.stagePosition.x) * nextScale)
                                     \div view.stageScale,
                 y |-> pointer.y - ((pointer.y - view.stagePosition.y) * nextScale)
                                     \div view.stageScale]
              drift(p, before, after) ==
                (p - after) * view.stageScale - (p - before) * nextScale
          IN (/\ view' = applyZoom(view, size, pointer, scale)
              /\ clampStagePosition(view.containerSize, size, recomputed, nextScale)
                   = recomputed)
             => /\ drift(pointer.x, view.stagePosition.x, view'.stagePosition.x)
                     \in (1 - view.stageScale)..0
                /\ drift(pointer.y, view.stagePosition.y, view'.stagePosition.y)
                     \in (1 - view.stageScale)..0]_vars

\* in the 100 x 100 container the image overflows on both axes; a zoom to 1.05
\* about the pivot (100, 100) moved the translation and the clamp kept it
C32_Witness ==
  /\ lastOp = "applyZoom"
  /\ view.containerSize = [width |-> 100, height |-> 100]
  /\ view.seen.stageScale = ScaleUnit
  /\ view.stageScale = 105
  /\ view.stagePosition # view.seen.stagePosition
  /\ view.stagePosition.x \notin {0, (100 - 210) * PosUnit}
  /\ view.stagePosition.y \notin {0, (100 - 315) * PosUnit}
  /\ (100 * PosUnit - view.stagePosition.x) * ScaleUnit
       = (100 * PosUnit - view.seen.stagePosition.x) * 105

\* the translation that keeps the image point under pivot when the scale goes
\* from that of v to nextScale
pivotTranslation(v, pivot, nextScale) ==
  [x |-> pivot.x - ((pivot.x - v.stagePosition.x) * nextScale) \div v.stageScale,
   y |-> pivot.y - ((pivot.y - v.stagePosition.y) * nextScale) \div v.stageScale]

\* the image point under pivot is the same in v and w, up to the rounding of
\* one translation unit
samePointUnder(pivot, v, w) ==
  /\ (pivot.x - w.stagePosition.x) * v.stageScale
       - (pivot.x - v.stagePosition.x) * w.stageScale \in (1 - v.stageScale)..0
  /\ (pivot.y - w.stagePosition.y) * v.stageScale
       - (pivot.y - v.stagePosition.y) * w.stageScale \in (1 - v.stageScale)..0

C34_LayersOrderedByZ ==
  store.document # Null =>
    \A i \in 1..Len(docLayers) : \A j \in 1..Len(docLayers) :
      i < j => docLayers[i].z <= docLayers[j].z

\* C35: a legacy circle of a loaded document becomes one freehand polygon of
\* FREEHAND_SAMPLES points lying within its stored radius of its stored
\* center, a center coordinate of 0 included, and the layer keeps its number
\* of shapes.
C35_CircleUpgradedAroundItsCenter ==
  LET stored == edgeCircleDoc(Images[1]).layers[1].shapes[1]
  IN (lastOp = "setDocument" /\ store.document # Null) =>
       \A layerIndex \in 1..Len(docLayers) :
         \A sh \in {docLayers[layerIndex].shapes[j] :
                     j \in 1..Len(docLayers[layerIndex].shapes)} :
           sh.id = stored.id =>
             /\ Len(docLayers[layerIndex].shapes) = 1
             /\ Len(sh.points) = FREEHAND_SAMPLES
             /\ \A k \in 1..Len(sh.points) :
                  /\ Abs(sh.points[k].x - stored.center.x) <= stored.radius + 1
                  /\ Abs(sh.points[k].y * 3 - stored.center.y * 3) <= stored.radius * 2 + 3

\* C36: throughout a capture every two consecutive points of the draft are
\* farther apart than MIN_POINT_DISTANCE, and a pointer-move that is not
\* farther than that from the last point leaves the draft unchanged.
C36_DraftPointsSpaced ==
  draftPath # Null =>
    \A k \in 1..(Len(draftPath.points) - 1) :
      hypot2(draftPath.points[k], draftPath.points[k + 1])
        > MIN_POINT_DISTANCE * MIN_POINT_DISTANCE

\* C37: a pointer-up commits a shape only if the first and the last point of
\* the draft are closer than CLOSE_THRESHOLD; at exactly that distance nothing
\* is committed.
C37_CommittedStrokeStrictlyClosed ==
  [][(/\ lastOp' = "pointerUp"
      /\ draftPath # Null
      /\ shapeCount(store'.document) > shapeCount(store.document))
     => hypot2(draftPath.points[1], draftPath.points[Len(draftPath.points)])
          < CLOSE_THRESHOLD * CLOSE_THRESHOLD]_vars

\* C38: a stroke that is committed adds exactly one shape, at the end of the
\* active layer: the draft's points normalized one by one, in order, each
\* coordinate in [0, 1], closed; the other layers, the other fields of the
\* active layer and the shapes it already held are unchanged.
C38_CommitAppendsNormalizedPath ==
  [][(lastOp' = "pointerUp" /\ store'.document # store.document)
     => \E path \in SampleStrokes : \E i \in 1..Len(docLayers) :
          LET size == store.document.image_size
              draft == movesAlong([points |-> <<clampToImage(path[1], size)>>],
                                  path, 2, size)
              old == store.document.layers
              new == store'.document.layers
              held == Len(old[i].shapes)
          IN /\ Len(draft.points) >= 3
             /\ Len(new) = Len(old)
             /\ old[i].id = getActiveLayer(store).id
             /\ Len(new[i].shapes) = held + 1
             /\ SubSeq(new[i].shapes, 1, held) = old[i].shapes
             /\ [new[i] EXCEPT !.shapes = old[i].shapes] = old[i]
             /\ \A j \in 1..Len(old) : j # i => new[j] = old[j]
             /\ LET shape == new[i].shapes[held + 1]
                IN /\ shape.closed
                   /\ Len(shape.points) = Len(draft.points)
                   /\ \A k \in 1..Len(shape.points) :
                        /\ shape.points[k] = normalize(draft.points[k], size)
                        /\ shape.points[k].x \in 0..NormUnit
                        /\ shape.points[k].y \in 0..NormUnit]_vars

\* a stroke was committed to the second layer, which already held a shape
C38_Witness ==
  /\ lastOp = "pointerUp"
  /\ Len(docLayers) = 2
  /\ Len(docLayers[2].shapes) = 2
  /\ store.selectedShapeId = docLayers[2].shapes[2].id
  /\ store.selectedLayerId = docLayers[2].id
  /\ docLayers[2].shapes[1].id # docLayers[2].shapes[2].id
  /\ docLayers[1].id # docLayers[2].id

\* C39: the effects of a render return the scale to 1 only after an external
\* trigger: when neither the container size nor the reset token changed in the
\* render (the image is the same throughout), the effects leave the scale as
\* the zoom gesture set it.
C39_ZoomKeptUntilTrigger ==
  [][(/\ lastOp' = "viewEffects"
      /\ view.seen.containerSize = view.containerSize
      /\ view.seen.resetViewportKey = view.resetViewportKey)
     => view'.stageScale = view.stageScale]_vars

\* C40: no drawing, erasing, dragging or deleting step changes the shapes of
\* a layer that is locked when the step is taken.
C40_LockedLayerShapesKept ==
  [][lastOp' \in {"pointerUp", "deleteShape", "updateShape", "eraseRefused"}
     => \A i \in 1..Len(docLayers) :
          docLayers[i].locked
            => /\ i <= Len(store'.document.layers)
               /\ store'.document.layers[i].shapes = docLayers[i].shapes]_vars

====
